---- MODULE Spec2Model ----
(***************************************************************************)
(* Access-control and sharing core of the document service:                *)
(* documents/api/permissions.py, documents/utils/permissions.py,           *)
(* documents/api/views.py, documents/api/serializers.py and                *)
(* documents/models.py.                                                    *)
(*                                                                         *)
(* A timestamp is a natural number; a nullable timestamp is a sequence of  *)
(* length 0 (NULL) or 1.  The Access (audit) table is append-only and read *)
(* by none of the decisions modelled here: the table is not carried in the *)
(* state, and the rows a request appends to it are given, handler by       *)
(* handler, by the operator named <Handler>Access.                         *)
(***************************************************************************)
EXTENDS Integers, FiniteSets, Sequences, TLC

\* ---------------------------------------------------------------- bounds
MaxTime == 2        \* the clock runs over 0..MaxTime
MaxShares == 1      \* Share primary keys handed out under Spec
MaxSharingIds == 2  \* Share primary keys handed out under SpecSharing
MaxGrants == 1      \* rows of the object-permission table
MaxCached == 1      \* live entries of the permission cache
MaxRaceIds == 2     \* Share primary keys handed out under SpecRace
MaxDownloads == 1   \* successful downloads counted per document
MaxGrantRows == 3   \* rows of the object-permission table under SpecGrants
MaxDocuments == 4   \* Document rows under SpecUpload

\* ------------------------------------------------------- fixed universes
Users == {1, 2, 3, 4}
Docs == {1, 2}
Superusers == {3}
DocumentAdmins == {4}

Perms == {"view_doc", "edit_doc", "delete_doc", "download_doc", "share_doc"}
PERMISSION_LEVEL == {"view", "edit", "download"}
SAFE_METHODS == {"GET", "HEAD", "OPTIONS"}
Methods == {"GET", "HEAD", "OPTIONS", "POST", "PUT", "PATCH", "DELETE"}

Null == << >>
ExpiryInputs == {Null, <<1>>}

VARIABLES
    docs,       \* Document rows by primary key: [owner, is_public, status,
                \* download_count, file_hash]
    shares,     \* Share rows: set of records
    next_id,    \* next Share primary key
    grants,     \* object-permission rows: set of <<user, codename, doc>>
    cache,      \* permission cache: set of [user, perm, doc, value]
    now,        \* timezone.now()
    inflight    \* share requests being served: [Requests -> request record]

vars == <<docs, shares, next_id, grants, cache, now, inflight>>

\* ------------------------------------------------------------ Share model
IsNull(t) == t = Null

\* Q(expires_at__isnull=True) | Q(expires_at__gt=timezone.now())
NotExpiredAt(sh, t) == IsNull(sh.expires_at) \/ sh.expires_at[1] > t

\* Share.is_expired: timezone.now() > self.expires_at, False without expiry.
IsExpired(sh, t) == IF IsNull(sh.expires_at) THEN FALSE ELSE t > sh.expires_at[1]

\* Share.is_active
IsActive(sh, t) == ~IsExpired(sh, t)

\* ShareFilter.filter_active with value True (and filter_expired with False):
\* Q(expires_at__isnull=True) | Q(expires_at__gt=now)
FilterActive(sh, t) == IsNull(sh.expires_at) \/ sh.expires_at[1] > t

\* ShareFilter.filter_expired with value True: expires_at__lte=now
FilterExpired(sh, t) == ~IsNull(sh.expires_at) /\ sh.expires_at[1] <= t

\* DocumentFilter.filter_shared_with_me and MyDocumentsView.get: the ids of
\* the documents shared with the user.
SharedIds(S, t, u) ==
    {sh.document : sh \in {o \in S : /\ o.shared_with = u
                                     /\ (IsNull(o.expires_at) \/ o.expires_at[1] > t)}}

\* document.shares / Share.objects.filter(document=d)
SharesOf(S, d) == {sh \in S : sh.document = d}

\* .filter(shared_with_id=u).exists()
ShareExists(S, d, u) == \E sh \in SharesOf(S, d) : sh.shared_with = u

\* unique_together = ["document", "shared_with"], enforced by the database
\* on INSERT and UPDATE: the row `sh` may be written next to the rows S.
UniqueViolation(S, sh) ==
    \E o \in S : o.id # sh.id /\ o.document = sh.document
                              /\ o.shared_with = sh.shared_with

NewShare(id, d, w, by, level, exp) ==
    [id |-> id, document |-> d, shared_with |-> w, shared_by |-> by,
     permission_level |-> level, expires_at |-> exp]

\* A Document row as an upload creates it.
NewDocument(owner, is_public, file_hash) ==
    [owner |-> owner, is_public |-> is_public, status |-> "active", download_count |-> 0,
     file_hash |-> file_hash]

\* -------------------------------------------------- guardian / Django auth
\* ObjectPermissionChecker.has_perm strips the app label before the lookup.
StripAppLabel(perm) ==
    CASE perm = "documents.view_doc" -> "view_doc"
      [] perm = "documents.edit_doc" -> "edit_doc"
      [] perm = "documents.delete_doc" -> "delete_doc"
      [] perm = "documents.download_doc" -> "download_doc"
      [] perm = "documents.share_doc" -> "share_doc"
      [] OTHER -> perm

\* guardian.core.ObjectPermissionChecker.has_perm as CachedPermissionChecker
\* calls it (self.checker.has_perm): superusers pass, otherwise the codename
\* must be among the user's object permissions.
CheckerHasPerm(G, u, perm, d) ==
    \/ u \in Superusers
    \/ <<u, StripAppLabel(perm), d>> \in G

\* request.user.has_perm(perm, obj): ModelBackend grants nothing per object,
\* guardian's ObjectPermissionBackend answers with the checker.
UserHasPerm(G, u, perm, d) == CheckerHasPerm(G, u, perm, d)

\* ------------------------------------------------ CachedPermissionChecker
\* cache.get(cache_key) is not None
CacheHit(c, u, perm, d) ==
    \E e \in c : e.user = u /\ e.perm = perm /\ e.doc = d

CacheValue(c, u, perm, d) ==
    (CHOOSE e \in c : e.user = u /\ e.perm = perm /\ e.doc = d).value

\* cache.set storing True whatever the result.
CacheSetTrue(c, u, perm, d, v) ==
    LET others == {e \in c : ~(e.user = u /\ e.perm = perm /\ e.doc = d)}
        entry == [user |-> u, perm |-> perm, doc |-> d, value |-> TRUE]
    IN IF Cardinality(others) >= MaxCached THEN {entry} ELSE others \cup {entry}

\* cache.set(cache_key, result, CACHE_TIMEOUT).  Entries live for the
\* timeout only: when MaxCached entries are live the older ones have run out.
CacheSet(c, u, perm, d, v) ==
    LET others == {e \in c : ~(e.user = u /\ e.perm = perm /\ e.doc = d)}
        entry == [user |-> u, perm |-> perm, doc |-> d, value |-> v]
    IN IF Cardinality(others) >= MaxCached THEN {entry} ELSE others \cup {entry}

\* CachedPermissionChecker.has_perm: the value returned ...
HasPerm(c, G, u, perm, d) ==
    IF CacheHit(c, u, perm, d)
    THEN CacheValue(c, u, perm, d)
    ELSE CheckerHasPerm(G, u, perm, d)

\* ... and the cache it leaves behind.
HasPermCache(c, G, u, perm, d) ==
    IF CacheHit(c, u, perm, d)
    THEN c
    ELSE CacheSet(c, u, perm, d, CheckerHasPerm(G, u, perm, d))

\* CachedPermissionChecker(user).invalidate_cache(obj):
\* cache.delete_pattern("doc_perms:user:<id>:*:<obj.id>")
InvalidateCache(c, u, d) == {e \in c : ~(e.user = u /\ e.doc = d)}

\* ------------------------------------------------------------ the resolver
\* BaseDocumentPermission._check_group_permission
CheckGroupPermission(u) == u \in DocumentAdmins

\* _check_read_permission returning the cached view_doc verdict as soon as
\* there is one, without going on to is_public and the shares.
CheckReadPermissionCachedFirst(D, S, G, c, t, u, d) ==
    IF CacheHit(c, u, "documents.view_doc", d)
    THEN CacheValue(c, u, "documents.view_doc", d)
    ELSE \/ CheckerHasPerm(G, u, "documents.view_doc", d)
         \/ D[d].is_public
         \/ \E sh \in S : /\ sh.document = d
                          /\ sh.shared_with = u
                          /\ NotExpiredAt(sh, t)

\* DocumentPermission._check_read_permission
CheckReadPermission(D, S, G, c, t, u, d) ==
    \/ HasPerm(c, G, u, "documents.view_doc", d)
    \/ D[d].is_public
    \/ \E sh \in S : /\ sh.document = d
                     /\ sh.shared_with = u
                     /\ NotExpiredAt(sh, t)

\* has_object_permission without its `obj.owner == user` branch.
HasObjectPermissionNoOwner(D, S, G, c, t, u, method, d) ==
    IF u \in Superusers \/ CheckGroupPermission(u) THEN TRUE
    ELSE IF method \in SAFE_METHODS THEN CheckReadPermission(D, S, G, c, t, u, d)
    ELSE IF method = "DELETE" THEN HasPerm(c, G, u, "documents.delete_doc", d)
    ELSE FALSE

\* DocumentPermission.has_object_permission
HasObjectPermission(D, S, G, c, t, u, method, d) ==
    IF u \in Superusers \/ CheckGroupPermission(u) THEN TRUE
    ELSE IF D[d].owner = u THEN TRUE
    ELSE IF method \in SAFE_METHODS THEN CheckReadPermission(D, S, G, c, t, u, d)
    ELSE IF method = "DELETE" THEN HasPerm(c, G, u, "documents.delete_doc", d)
    ELSE FALSE

\* The cache after DocumentPermission.has_object_permission ran.
HasObjectPermissionCache(D, G, c, u, method, d) ==
    IF u \in Superusers \/ CheckGroupPermission(u) \/ D[d].owner = u THEN c
    ELSE IF method \in SAFE_METHODS THEN HasPermCache(c, G, u, "documents.view_doc", d)
    ELSE IF method = "DELETE" THEN HasPermCache(c, G, u, "documents.delete_doc", d)
    ELSE c

ViewNames == {"view_doc", "documents.view_doc"}

\* utils.permissions.check_document_access (use_cache=True)
CheckDocumentAccess(D, S, G, c, u, d, required_permission) ==
    IF D[d].owner = u THEN TRUE
    ELSE IF D[d].is_public /\ required_permission \in ViewNames THEN TRUE
    ELSE IF /\ required_permission \in ViewNames
            /\ \E sh \in SharesOf(S, d) :
                  sh.shared_with = u /\ IsNull(sh.expires_at)
         THEN TRUE
    ELSE HasPerm(c, G, u, required_permission, d)

\* check_document_access reaches the cached checker only on its last line.
CheckDocumentAccessCache(D, S, G, c, u, d, required_permission) ==
    IF D[d].owner = u THEN c
    ELSE IF D[d].is_public /\ required_permission \in ViewNames THEN c
    ELSE IF /\ required_permission \in ViewNames
            /\ \E sh \in SharesOf(S, d) :
                  sh.shared_with = u /\ IsNull(sh.expires_at)
         THEN c
    ELSE HasPermCache(c, G, u, required_permission, d)

\* CanShareDocument.has_object_permission
CanShareDocument(D, S, G, c, u, d) ==
    IF D[d].owner = u THEN TRUE
    ELSE CheckDocumentAccess(D, S, G, c, u, d, "documents.share_doc")

CanShareDocumentCache(D, S, G, c, u, d) ==
    IF D[d].owner = u THEN c
    ELSE CheckDocumentAccessCache(D, S, G, c, u, d, "documents.share_doc")

\* get_queryset taking every share of the caller, expired ones included.
InQuerysetAnyShare(D, S, t, u, d) ==
    IF u \in Superusers THEN TRUE
    ELSE \/ D[d].owner = u
         \/ \E sh \in SharesOf(S, d) : sh.shared_with = u
         \/ D[d].is_public

\* DocumentViewSet.get_queryset: is document d in the caller's queryset?
InQueryset(D, S, t, u, d) ==
    IF u \in Superusers THEN TRUE
    ELSE \/ D[d].owner = u
         \/ \E sh \in SharesOf(S, d) : sh.shared_with = u /\ IsNull(sh.expires_at)
         \/ \E sh \in SharesOf(S, d) :
               sh.shared_with = u /\ ~IsNull(sh.expires_at) /\ sh.expires_at[1] > t
         \/ D[d].is_public

\* The permission test inside DocumentViewSet.download (views.py 163-173)
DownloadCheck(D, S, G, t, u, d) ==
    \/ u = D[d].owner
    \/ UserHasPerm(G, u, "download_doc", d)
    \/ D[d].is_public
    \/ \E sh \in SharesOf(S, d) :
          /\ sh.shared_with = u
          /\ sh.permission_level \in {"download", "edit"}
          /\ NotExpiredAt(sh, t)

\* ------------------------------------------------------------- responses
Response(code, detail) == [code |-> code, detail |-> detail]

\* log_document_access(document, user, action, request, ..., success): the
\* Access rows the call appends.
LogDocumentAccess(d, u, action, success) ==
    <<[document |-> d, user |-> u, action |-> action, success |-> success]>>

\* GenericAPIView.get_object for a detail route of DocumentViewSet whose
\* object permission is `allowed`: 404 outside get_queryset, 403 when the
\* object permission refuses, 200 when the handler body runs.
GetObjectCode(D, S, t, u, d, allowed) ==
    IF ~InQueryset(D, S, t, u, d) THEN 404
    ELSE IF ~allowed THEN 403
    ELSE 200

\* GenericAPIView.get_object for a primary key: get_object_or_404 on
\* get_queryset answers an id without a Document row as it answers a row
\* outside the caller's queryset; `out` is the response of the handler for
\* an id that has a row.
GetObjectOr404(D, id, out) ==
    IF id \notin DOMAIN D THEN Response(404, "not_found") ELSE out

\* --------------------------------------------------- DocumentViewSet.share
\* share without the existence check of views.py 243.
ShareOutcomeNoExistenceCheck(D, S, G, c, t, u, d, w) ==
    LET got == GetObjectCode(D, S, t, u, d, CanShareDocument(D, S, G, c, u, d))
    IN IF got = 404 THEN Response(404, "not_found")
       ELSE IF got = 403 THEN Response(403, "permission_denied")
       ELSE IF w = D[d].owner THEN Response(400, "share_with_owner")
       ELSE IF w = u THEN Response(400, "share_with_self")
       ELSE IF UniqueViolation(S, NewShare(0, d, w, u, "view", Null))
            THEN Response(500, "integrity_error")
       ELSE Response(201, "created")

\* The response to POST /items/<d>/share/ {shared_with_id: w} by user u.
ShareOutcome(D, S, G, c, t, u, d, w) ==
    LET got == GetObjectCode(D, S, t, u, d, CanShareDocument(D, S, G, c, u, d))
    IN IF got = 404 THEN Response(404, "not_found")
       ELSE IF got = 403 THEN Response(403, "permission_denied")
       \* views.py 243: the application-level existence check
       ELSE IF ShareExists(S, d, w) THEN Response(400, "already_shared")
       \* ShareSerializer.validate
       ELSE IF w = D[d].owner THEN Response(400, "share_with_owner")
       ELSE IF w = u THEN Response(400, "share_with_self")
       \* serializer.save(): the database refuses a second row for the pair
       ELSE IF UniqueViolation(S, NewShare(0, d, w, u, "view", Null))
            THEN Response(500, "integrity_error")
       ELSE Response(201, "created")

\* POST /items/<d>/share/ {shared_with_id: w, permission_level, expires_at}
Share(u, d, w) ==
    LET out == ShareOutcome(docs, shares, grants, cache, now, u, d, w)
    IN /\ cache' = IF InQueryset(docs, shares, now, u, d)
                   THEN CanShareDocumentCache(docs, shares, grants, cache, u, d)
                   ELSE cache
       /\ IF out.code = 201
          THEN /\ \E level \in PERMISSION_LEVEL, exp \in ExpiryInputs :
                     shares' = shares \cup {NewShare(next_id, d, w, u, level, exp)}
               /\ next_id' = next_id + 1
          ELSE UNCHANGED <<shares, next_id>>
       /\ UNCHANGED <<docs, grants, now, inflight>>

\* The Access rows of the request: one "share" row after serializer.save().
ShareAccess(D, S, G, c, t, u, d, w) ==
    IF ShareOutcome(D, S, G, c, t, u, d, w).code = 201
    THEN LogDocumentAccess(d, u, "share", TRUE)
    ELSE << >>

\* ------------------------------- DocumentViewSet.share, request by request
\* Two workers serve share requests side by side; ATOMIC_REQUESTS wraps each
\* request in a transaction of its own.
Requests == {1, 2}

IdleRequest ==
    [pc |-> "idle", user |-> 0, document |-> 0, shared_with_id |-> 0,
     validated |-> FALSE, response |-> Response(0, "")]

\* views.py 239-253: get_object, the existence check and
\* serializer.is_valid read the store; the request stops here with its
\* error response, or goes on to serializer.save().
ShareBegin(r, u, d, w) ==
    LET out == ShareOutcome(docs, shares, grants, cache, now, u, d, w)
    IN /\ inflight[r].pc = "idle"
       /\ inflight' = [inflight EXCEPT ![r] =
              [pc |-> IF out.code = 201 THEN "checked" ELSE "done",
               user |-> u, document |-> d, shared_with_id |-> w,
               validated |-> out.code = 201,
               response |-> IF out.code = 201 THEN Response(0, "") ELSE out]]
       /\ cache' = IF InQueryset(docs, shares, now, u, d)
                   THEN CanShareDocumentCache(docs, shares, grants, cache, u, d)
                   ELSE cache
       /\ UNCHANGED <<docs, shares, next_id, grants, now>>

\* views.py 254 / ShareSerializer.create: the INSERT and the commit of the
\* request's transaction.  The unique constraint refuses the row when the
\* pair was committed meanwhile: IntegrityError, which no handler of the
\* view or of REST_FRAMEWORK's EXCEPTION_HANDLER turns into a response.
ShareCommit(r) ==
    LET q == inflight[r]
        taken == UniqueViolation(shares,
                     NewShare(next_id, q.document, q.shared_with_id, q.user, "view", Null))
    IN /\ q.pc = "checked"
       /\ IF taken
          THEN /\ inflight' = [inflight EXCEPT ![r].pc = "done",
                                               ![r].response = Response(500, "integrity_error")]
               /\ UNCHANGED <<shares, next_id>>
          ELSE /\ \E level \in PERMISSION_LEVEL, exp \in ExpiryInputs :
                     shares' = shares \cup {NewShare(next_id, q.document, q.shared_with_id,
                                                     q.user, level, exp)}
               /\ next_id' = next_id + 1
               /\ inflight' = [inflight EXCEPT ![r].pc = "done",
                                               ![r].response = Response(201, "created")]
       /\ UNCHANGED <<docs, grants, cache, now>>

\* The response leaves; the worker takes the next request.
ShareRespond(r) ==
    /\ inflight[r].pc = "done"
    /\ inflight' = [inflight EXCEPT ![r] = IdleRequest]
    /\ UNCHANGED <<docs, shares, next_id, grants, cache, now>>

\* ---------------------------------------------- DocumentViewSet.bulk_share
\* The loop of views.py 287-303 over user_ids[i..], starting from the rows S
\* with `id` the next primary key: the rows after the loop.
RECURSIVE BulkLoop(_, _, _, _, _, _, _, _, _)
BulkLoop(D, S, id, u, d, ids, i, level, exp) ==
    IF i > Len(ids) THEN S
    ELSE IF ShareExists(S, d, ids[i]) \/ ids[i] = D[d].owner
         THEN BulkLoop(D, S, id, u, d, ids, i + 1, level, exp)
         ELSE BulkLoop(D, S \cup {NewShare(id, d, ids[i], u, level, exp)},
                       id + 1, u, d, ids, i + 1, level, exp)

\* POST /items/<d>/bulk_share/ {user_ids: ids, permission_level, expires_at}
BulkShare(u, d, ids) ==
    LET got == GetObjectCode(docs, shares, now, u, d,
                             CanShareDocument(docs, shares, grants, cache, u, d))
    IN /\ cache' = IF got = 404 THEN cache
                   ELSE CanShareDocumentCache(docs, shares, grants, cache, u, d)
       /\ IF got = 200
          THEN \E level \in PERMISSION_LEVEL, exp \in ExpiryInputs :
                  LET after == BulkLoop(docs, shares, next_id, u, d, ids, 1, level, exp)
                      created == Cardinality(after) - Cardinality(shares)
                  IN /\ shares' = after
                     /\ next_id' = next_id + created
          ELSE UNCHANGED <<shares, next_id>>
       /\ UNCHANGED <<docs, grants, now, inflight>>

\* The response to POST /items/<d>/bulk_share/ with a valid body.
BulkShareOutcome(D, S, G, c, t, u, d) ==
    LET got == GetObjectCode(D, S, t, u, d, CanShareDocument(D, S, G, c, u, d))
    IN IF got = 404 THEN Response(404, "not_found")
       ELSE IF got = 403 THEN Response(403, "permission_denied")
       ELSE Response(201, "created")

\* The Access rows of the request: one "share" row when the loop created
\* a share (views.py 306-316).
BulkShareAccess(D, S, G, c, t, u, d, ids) ==
    IF /\ BulkShareOutcome(D, S, G, c, t, u, d).code = 201
       /\ BulkLoop(D, S, 0, u, d, ids, 1, "view", Null) # S
    THEN LogDocumentAccess(d, u, "share", TRUE)
    ELSE << >>

\* ------------------------ DocumentViewSet.bulk_share, request by request
\* The rows a request has inserted in its transaction and not committed.
PendingRows(r) ==
    IF inflight[r].pc \in {"bulk_loop", "bulk_insert"} THEN inflight[r].created ELSE {}

\* An INSERT waits while another transaction holds an uncommitted row for
\* the same (document, shared_with).
InsertBlocked(r, d, w) ==
    \E o \in Requests \ {r} :
       \E sh \in PendingRows(o) : sh.document = d /\ sh.shared_with = w

\* views.py 278-285: get_object with CanShareDocument, then the serializer.
BulkShareBegin(r, u, d, ids, level, exp) ==
    LET out == BulkShareOutcome(docs, shares, grants, cache, now, u, d)
    IN /\ inflight[r].pc = "idle"
       /\ inflight' = [inflight EXCEPT ![r] =
              [pc |-> IF out.code = 201 THEN "bulk_loop" ELSE "bulk_done",
               kind |-> "bulk_share", user |-> u, document |-> d, user_ids |-> ids,
               permission_level |-> level, expires_at |-> exp,
               i |-> 1, created |-> {}, inserted |-> {},
               response |-> IF out.code = 201 THEN Response(0, "") ELSE out,
               created_count |-> 0]]
       /\ cache' = IF InQueryset(docs, shares, now, u, d)
                   THEN CanShareDocumentCache(docs, shares, grants, cache, u, d)
                   ELSE cache
       /\ UNCHANGED <<docs, shares, next_id, grants, now>>

\* views.py 289-294: the test of the loop for user_ids[i], which sees the
\* committed rows and the rows of the request's own transaction.
BulkShareCheck(r) ==
    LET q == inflight[r]
        w == q.user_ids[q.i]
        skip == \/ ShareExists(shares \cup q.created, q.document, w)
                \/ w = docs[q.document].owner
    IN /\ q.pc = "bulk_loop"
       /\ q.i <= Len(q.user_ids)
       /\ inflight' = IF skip THEN [inflight EXCEPT ![r].i = q.i + 1]
                      ELSE [inflight EXCEPT ![r].pc = "bulk_insert"]
       /\ UNCHANGED <<docs, shares, next_id, grants, cache, now>>

\* views.py 296-303: Share.objects.create for user_ids[i].  When the pair
\* was committed since the test, the INSERT raises IntegrityError, which
\* leaves the view: 500, and ATOMIC_REQUESTS rolls back every row the
\* request inserted.
BulkShareInsert(r) ==
    LET q == inflight[r]
        w == q.user_ids[q.i]
        row == NewShare(next_id, q.document, w, q.user, q.permission_level, q.expires_at)
    IN /\ q.pc = "bulk_insert"
       /\ ~InsertBlocked(r, q.document, w)
       /\ IF UniqueViolation(shares, row)
          THEN /\ inflight' = [inflight EXCEPT ![r].pc = "bulk_done",
                                               ![r].created = {},
                                               ![r].response = Response(500, "integrity_error")]
               /\ UNCHANGED next_id
          ELSE /\ inflight' = [inflight EXCEPT ![r].pc = "bulk_loop",
                                               ![r].i = q.i + 1,
                                               ![r].created = q.created \cup {row},
                                               ![r].inserted = q.inserted \cup {row}]
               /\ next_id' = next_id + 1
       /\ UNCHANGED <<docs, shares, grants, cache, now>>

\* views.py 305-324: the loop is over; the response carries
\* len(created_shares) and the transaction of the request commits.
BulkShareFinish(r) ==
    LET q == inflight[r]
    IN /\ q.pc = "bulk_loop"
       /\ q.i > Len(q.user_ids)
       /\ shares' = shares \cup q.created
       /\ inflight' = [inflight EXCEPT ![r].pc = "bulk_done",
                                       ![r].created = {},
                                       ![r].response = Response(201, "created"),
                                       ![r].created_count = Cardinality(q.created)]
       /\ UNCHANGED <<docs, next_id, grants, cache, now>>

\* The response leaves; the worker takes the next request.
BulkShareRespond(r) ==
    /\ inflight[r].pc = "bulk_done"
    /\ inflight' = [inflight EXCEPT ![r] = IdleRequest]
    /\ UNCHANGED <<docs, shares, next_id, grants, cache, now>>

\* ------------------------------------------------- DocumentViewSet.unshare
\* unshare without its `except Share.DoesNotExist` branch answering 404:
\* a missing share is answered like a deleted one.
UnshareOutcomeNoNotFound(D, S, G, c, t, u, d, share_id) ==
    LET got == GetObjectCode(D, S, t, u, d,
                             HasObjectPermission(D, S, G, c, t, u, "DELETE", d))
    IN IF got = 404 THEN Response(404, "not_found")
       ELSE IF got = 403 THEN Response(403, "permission_denied")
       ELSE IF u # D[d].owner THEN Response(403, "only_owner")
       ELSE Response(204, "deleted")

\* The response to DELETE /items/<d>/shares/<share_id>/ by user u.
UnshareOutcome(D, S, G, c, t, u, d, share_id) ==
    LET got == GetObjectCode(D, S, t, u, d,
                             HasObjectPermission(D, S, G, c, t, u, "DELETE", d))
    IN IF got = 404 THEN Response(404, "not_found")
       ELSE IF got = 403 THEN Response(403, "permission_denied")
       ELSE IF u # D[d].owner THEN Response(403, "only_owner")
       ELSE IF ~\E sh \in SharesOf(S, d) : sh.id = share_id
            THEN Response(404, "share_not_found")
       ELSE Response(204, "deleted")

\* The Share rows after the request: share.delete() runs on the 204 path.
UnshareRows(D, S, G, c, t, u, d, share_id) ==
    IF UnshareOutcome(D, S, G, c, t, u, d, share_id).code = 204
    THEN {sh \in S : ~(sh.document = d /\ sh.id = share_id)}
    ELSE S

\* The Access rows of the request: one "unshare" row, written after
\* document.shares.get found the share and before share.delete().
UnshareAccess(D, S, G, c, t, u, d, share_id) ==
    IF UnshareOutcome(D, S, G, c, t, u, d, share_id).code = 204
    THEN LogDocumentAccess(d, u, "unshare", TRUE)
    ELSE << >>

\* The permission cache after the request.
UnshareCache(D, S, G, c, t, u, d) ==
    IF InQueryset(D, S, t, u, d)
    THEN HasObjectPermissionCache(D, G, c, u, "DELETE", d)
    ELSE c

Unshare(u, d, share_id) ==
    /\ cache' = UnshareCache(docs, shares, grants, cache, now, u, d)
    /\ shares' = UnshareRows(docs, shares, grants, cache, now, u, d, share_id)
    /\ UNCHANGED <<docs, next_id, grants, now, inflight>>

\* ------------------------------------------------ DocumentViewSet.download
\* The response to GET /items/<d>/download/ by user u; in_storage says
\* whether minio_client.get_file_data finds the object.
DownloadOutcome(D, S, G, c, t, u, d, in_storage) ==
    LET got == GetObjectCode(D, S, t, u, d,
                             HasObjectPermission(D, S, G, c, t, u, "GET", d))
    IN IF got = 404 THEN Response(404, "not_found")
       ELSE IF got = 403 THEN Response(403, "permission_denied")
       ELSE IF ~DownloadCheck(D, S, G, t, u, d) THEN Response(403, "no_download")
       ELSE IF ~in_storage THEN Response(500, "download_failed")
       ELSE Response(200, "file")

\* The Access rows of the request: a "download" row after the increment, or
\* a failure row from the `except Exception` branch (views.py 197-205).
DownloadAccess(D, S, G, c, t, u, d, in_storage) ==
    LET code == DownloadOutcome(D, S, G, c, t, u, d, in_storage).code
    IN IF code = 200 THEN LogDocumentAccess(d, u, "download", TRUE)
       ELSE IF code = 500 THEN LogDocumentAccess(d, u, "download", FALSE)
       ELSE << >>

\* download counting the request as soon as get_object found the document,
\* before the permission test of views.py 163-173.
DownloadCountsFirst(u, d, in_storage) ==
    LET out == DownloadOutcome(docs, shares, grants, cache, now, u, d, in_storage)
    IN /\ cache' = IF InQueryset(docs, shares, now, u, d)
                   THEN HasObjectPermissionCache(docs, grants, cache, u, "GET", d)
                   ELSE cache
       /\ docs' = IF out.code = 200 \/ out = Response(403, "no_download")
                  THEN [docs EXCEPT ![d].download_count = @ + 1]
                  ELSE docs
       /\ UNCHANGED <<shares, next_id, grants, now, inflight>>

\* GET /items/<d>/download/ by user u.  increment_download_count is the
\* relative update download_count = F("download_count") + 1, run only after
\* the permission test passed and the file data came back.
Download(u, d, in_storage) ==
    LET out == DownloadOutcome(docs, shares, grants, cache, now, u, d, in_storage)
    IN /\ cache' = IF InQueryset(docs, shares, now, u, d)
                   THEN HasObjectPermissionCache(docs, grants, cache, u, "GET", d)
                   ELSE cache
       /\ docs' = IF out.code = 200
                  THEN [docs EXCEPT ![d].download_count = @ + 1]
                  ELSE docs
       /\ UNCHANGED <<shares, next_id, grants, now, inflight>>

\* ------------------------------- DocumentViewSet.retrieve and .destroy
\* GET /items/<d>/ by user u: get_object runs the object permission, which
\* may fill the permission cache.
Retrieve(u, d) ==
    /\ cache' = IF InQueryset(docs, shares, now, u, d)
                THEN HasObjectPermissionCache(docs, grants, cache, u, "GET", d)
                ELSE cache
    /\ UNCHANGED <<docs, shares, next_id, grants, now, inflight>>

\* The response to GET /items/<d>/ by user u.
RetrieveOutcome(D, S, G, c, t, u, d) ==
    LET got == GetObjectCode(D, S, t, u, d,
                             HasObjectPermission(D, S, G, c, t, u, "GET", d))
    IN IF got = 404 THEN Response(404, "not_found")
       ELSE IF got = 403 THEN Response(403, "permission_denied")
       ELSE Response(200, "document")

\* The Access rows of the request: one "view" row after get_object.
RetrieveAccess(D, S, G, c, t, u, d) ==
    IF RetrieveOutcome(D, S, G, c, t, u, d).code = 200
    THEN LogDocumentAccess(d, u, "view", TRUE)
    ELSE << >>

\* The response to GET /items/<d>/shares/ by user u.
ListSharesOutcome(D, S, G, c, t, u, d) ==
    LET got == GetObjectCode(D, S, t, u, d,
                             HasObjectPermission(D, S, G, c, t, u, "GET", d))
    IN IF got = 404 THEN Response(404, "not_found")
       ELSE IF got = 403 THEN Response(403, "permission_denied")
       ELSE IF ~(u = D[d].owner \/ UserHasPerm(G, u, "share_doc", d))
            THEN Response(403, "no_shares_list")
       ELSE Response(200, "shares")

\* The response to GET /items/<d>/access_logs/ by user u.
AccessLogsOutcome(D, S, G, c, t, u, d) ==
    LET got == GetObjectCode(D, S, t, u, d,
                             HasObjectPermission(D, S, G, c, t, u, "GET", d))
    IN IF got = 404 THEN Response(404, "not_found")
       ELSE IF got = 403 THEN Response(403, "permission_denied")
       ELSE IF ~(u = D[d].owner \/ u \in Superusers)
            THEN Response(403, "no_access_logs")
       ELSE Response(200, "logs")

\* shares and access_logs read; neither calls log_document_access.
ListingAccess(D, S, G, c, t, u, d) == << >>

\* GET /items/<d>/shares/ and GET /items/<d>/access_logs/ by user u: the
\* object permission of get_object may fill the permission cache.
Listing(u, d) ==
    /\ cache' = IF InQueryset(docs, shares, now, u, d)
                THEN HasObjectPermissionCache(docs, grants, cache, u, "GET", d)
                ELSE cache
    /\ UNCHANGED <<docs, shares, next_id, grants, now, inflight>>

\* The response to DELETE /items/<d>/ by user u.
DestroyOutcome(D, S, G, c, t, u, d) ==
    LET got == GetObjectCode(D, S, t, u, d,
                             HasObjectPermission(D, S, G, c, t, u, "DELETE", d))
    IN IF got = 404 THEN Response(404, "not_found")
       ELSE IF got = 403 THEN Response(403, "permission_denied")
       ELSE Response(204, "deleted")

\* The Access rows of the request: one "delete" row after instance.save().
DestroyAccess(D, S, G, c, t, u, d) ==
    IF DestroyOutcome(D, S, G, c, t, u, d).code = 204
    THEN LogDocumentAccess(d, u, "delete", TRUE)
    ELSE << >>

\* DELETE /items/<d>/: a soft delete, the row stays.
Destroy(u, d) ==
    LET out == DestroyOutcome(docs, shares, grants, cache, now, u, d)
    IN /\ cache' = IF InQueryset(docs, shares, now, u, d)
                   THEN HasObjectPermissionCache(docs, grants, cache, u, "DELETE", d)
                   ELSE cache
       /\ docs' = IF out.code = 204
                  THEN [docs EXCEPT ![d].status = "deleted"]
                  ELSE docs
       /\ UNCHANGED <<shares, next_id, grants, now, inflight>>

\* ------------------- DocumentViewSet.download and .destroy, step by step
\* views.py 161-183: get_object, the permission test and get_file_data.  The
\* request stops here with its error response or goes on to
\* increment_download_count.
DownloadBegin(r, u, d, in_storage) ==
    LET out == DownloadOutcome(docs, shares, grants, cache, now, u, d, in_storage)
    IN /\ inflight[r].pc = "idle"
       /\ inflight' = [inflight EXCEPT ![r] =
              [pc |-> IF out.code = 200 THEN "download_checked" ELSE "count_done",
               kind |-> "download", user |-> u, document |-> d, row |-> docs[d],
               response |-> IF out.code = 200 THEN Response(0, "") ELSE out]]
       /\ cache' = IF InQueryset(docs, shares, now, u, d)
                   THEN HasObjectPermissionCache(docs, grants, cache, u, "GET", d)
                   ELSE cache
       /\ UNCHANGED <<docs, shares, next_id, grants, now>>

\* increment_download_count: save(update_fields=...) with an F() expression
\* is one UPDATE ... SET download_count = download_count + 1, evaluated by
\* the database on the stored row; then the file is returned.
DownloadIncrement(r) ==
    LET q == inflight[r]
    IN /\ q.pc = "download_checked"
       /\ docs' = [docs EXCEPT ![q.document].download_count = @ + 1]
       /\ inflight' = [inflight EXCEPT ![r].pc = "count_done",
                                       ![r].response = Response(200, "file")]
       /\ UNCHANGED <<shares, next_id, grants, cache, now>>

\* views.py 149: get_object loads the Document instance, every field of it.
DestroyBegin(r, u, d) ==
    LET out == DestroyOutcome(docs, shares, grants, cache, now, u, d)
    IN /\ inflight[r].pc = "idle"
       /\ inflight' = [inflight EXCEPT ![r] =
              [pc |-> IF out.code = 204 THEN "destroy_read" ELSE "count_done",
               kind |-> "destroy", user |-> u, document |-> d, row |-> docs[d],
               response |-> IF out.code = 204 THEN Response(0, "") ELSE out]]
       /\ cache' = IF InQueryset(docs, shares, now, u, d)
                   THEN HasObjectPermissionCache(docs, grants, cache, u, "DELETE", d)
                   ELSE cache
       /\ UNCHANGED <<docs, shares, next_id, grants, now>>

\* views.py 151-152: instance.status = "deleted"; instance.save() without
\* update_fields writes every column from the loaded instance.
DestroySave(r) ==
    LET q == inflight[r]
    IN /\ q.pc = "destroy_read"
       /\ docs' = [docs EXCEPT ![q.document] = [q.row EXCEPT !.status = "deleted"]]
       /\ inflight' = [inflight EXCEPT ![r].pc = "count_done",
                                       ![r].response = Response(204, "deleted")]
       /\ UNCHANGED <<shares, next_id, grants, cache, now>>

\* ----------------------------------- DocumentViewSet.create (the upload)
\* DocumentPermission._can_create_document: document_admins, document_editors
\* and holders of documents.add_document (no user here is an editor or holds
\* that model permission); superusers pass before it.
CanCreateDocument(u) == u \in Superusers \cup DocumentAdmins

\* Document.objects.filter(file_hash=file_hash).first() finds a row.
HashExists(D, file_hash) == \E d \in DOMAIN D : D[d].file_hash = file_hash

\* The response to POST /items/ by user u for content of hash file_hash, up
\* to the INSERT; `stored` is the result of minio_client.upload_file.
UploadOutcome(D, u, file_hash, stored) ==
    IF ~CanCreateDocument(u) THEN Response(403, "permission_denied")
    ELSE IF HashExists(D, file_hash) THEN Response(400, "duplicate_content")
    ELSE IF ~stored THEN Response(400, "storage_failed")
    ELSE Response(201, "created")

\* DocumentCreateSerializer.create up to super().create(): the permission,
\* the duplicate check and the upload to storage.
UploadBegin(r, u, file_hash, is_public, stored) ==
    LET out == UploadOutcome(docs, u, file_hash, stored)
    IN /\ inflight[r].pc = "idle"
       /\ inflight' = [inflight EXCEPT ![r] =
              [pc |-> IF out.code = 201 THEN "upload_checked" ELSE "upload_done",
               user |-> u, file_hash |-> file_hash, is_public |-> is_public,
               validated |-> out.code = 201,
               response |-> IF out.code = 201 THEN Response(0, "") ELSE out]]
       /\ UNCHANGED <<docs, shares, next_id, grants, cache, now>>

\* super().create(): the INSERT and the commit of the request's transaction.
\* The unique index on file_hash refuses the row when the hash was committed
\* meanwhile: IntegrityError, caught by `except Exception`, whose
\* Access.objects.create then runs inside the broken transaction of
\* ATOMIC_REQUESTS and raises TransactionManagementError out of the handler.
UploadCommit(r) ==
    LET q == inflight[r]
    IN /\ q.pc = "upload_checked"
       /\ IF HashExists(docs, q.file_hash)
          THEN /\ inflight' = [inflight EXCEPT ![r].pc = "upload_done",
                                               ![r].response = Response(500, "transaction_error")]
               /\ UNCHANGED docs
          ELSE /\ docs' = Append(docs, NewDocument(q.user, q.is_public, q.file_hash))
               /\ inflight' = [inflight EXCEPT ![r].pc = "upload_done",
                                               ![r].response = Response(201, "created")]
       /\ UNCHANGED <<shares, next_id, grants, cache, now>>

\* The response leaves; the worker takes the next request.
UploadRespond(r) ==
    /\ inflight[r].pc = "upload_done"
    /\ inflight' = [inflight EXCEPT ![r] = IdleRequest]
    /\ UNCHANGED <<docs, shares, next_id, grants, cache, now>>

\* ------------------------------------------- ShareViewSet (PATCH a share)
\* ShareViewSet.get_queryset: is the Share row in the caller's queryset?
ShareInQueryset(D, u, sh) ==
    IF u \in Superusers THEN TRUE
    ELSE sh.shared_by = u \/ sh.shared_with = u \/ D[sh.document].owner = u

\* request.user of a request without credentials, and the NULL of a user
\* reference (Share.shared_by after its user was deleted).
AnonymousUser == 0
NoUser == 0

\* SharePermission.has_permission: request.user.is_authenticated
SharePermissionHasPermission(u) == u \in Users

\* SharePermission.has_object_permission with write access for the recipient.
SharePermissionRecipientWrites(D, u, method, sh) ==
    IF u \in Superusers THEN TRUE
    ELSE IF D[sh.document].owner = u THEN TRUE
    ELSE IF sh.shared_by = u THEN TRUE
    ELSE sh.shared_with = u

\* SharePermission.has_object_permission
SharePermission(D, u, method, sh) ==
    IF u \in Superusers THEN TRUE
    ELSE IF D[sh.document].owner = u THEN TRUE
    ELSE IF sh.shared_by = u THEN TRUE
    ELSE IF sh.shared_with = u THEN method \in SAFE_METHODS
    ELSE FALSE

\* ModelSerializer.update: setattr for every validated field of the PATCH.
\* A patch names the one field it carries and holds its value under that name.
Patched(sh, patch) ==
    CASE patch.field = "shared_with_id" -> [sh EXCEPT !.shared_with = patch.shared_with_id]
      [] patch.field = "permission_level" -> [sh EXCEPT !.permission_level = patch.permission_level]
      [] patch.field = "expires_at" -> [sh EXCEPT !.expires_at = patch.expires_at]

\* The response to PATCH /shares/<sh.id>/ by user u.
UpdateShareOutcome(D, S, u, sh, patch) ==
    IF ~ShareInQueryset(D, u, sh) THEN Response(404, "not_found")
    ELSE IF ~SharePermission(D, u, "PATCH", sh) THEN Response(403, "permission_denied")
    \* ShareSerializer.validate, with self.instance set
    ELSE IF patch.field = "shared_with_id" /\ patch.shared_with_id = D[sh.document].owner
         THEN Response(400, "share_with_owner")
    ELSE IF patch.field = "shared_with_id" /\ patch.shared_with_id = u
         THEN Response(400, "share_with_self")
    \* instance.save(): the database refuses a second row for the pair
    ELSE IF UniqueViolation(S, Patched(sh, patch)) THEN Response(500, "integrity_error")
    ELSE Response(200, "updated")

UpdateShare(u, sh, patch) ==
    LET out == UpdateShareOutcome(docs, shares, u, sh, patch)
    IN /\ sh \in shares
       /\ shares' = IF out.code = 200
                    THEN (shares \ {sh}) \cup {Patched(sh, patch)}
                    ELSE shares
       /\ UNCHANGED <<docs, next_id, grants, cache, now, inflight>>

\* ---------------------------------------- ShareViewSet (DELETE a share)
\* destroy without the object permission of get_object: every user who has
\* the row in get_queryset may delete it.
DestroyShareOutcomeNoPermission(D, S, u, share_id) ==
    IF ~\E sh \in S : sh.id = share_id /\ ShareInQueryset(D, u, sh)
    THEN Response(404, "not_found")
    ELSE Response(204, "deleted")

\* The response to DELETE /shares/<share_id>/ by user u: get_object looks
\* the row up in get_queryset and runs SharePermission on it.
DestroyShareOutcome(D, S, u, share_id) ==
    IF ~\E sh \in S : sh.id = share_id /\ ShareInQueryset(D, u, sh)
    THEN Response(404, "not_found")
    ELSE IF ~SharePermission(D, u, "DELETE", CHOOSE sh \in S : sh.id = share_id)
         THEN Response(403, "permission_denied")
    ELSE Response(204, "deleted")

\* The Share rows after the request: perform_destroy on the 204 path.
DestroyShareRows(D, S, u, share_id) ==
    IF DestroyShareOutcome(D, S, u, share_id).code = 204
    THEN {sh \in S : sh.id # share_id}
    ELSE S

\* The Access rows of the request: one "unshare" row, written after
\* get_object and before perform_destroy.
DestroyShareAccess(D, S, u, share_id) ==
    IF DestroyShareOutcome(D, S, u, share_id).code = 204
    THEN LogDocumentAccess((CHOOSE sh \in S : sh.id = share_id).document,
                           u, "unshare", TRUE)
    ELSE << >>

DestroyShare(u, share_id) ==
    /\ shares' = DestroyShareRows(docs, shares, u, share_id)
    /\ UNCHANGED <<docs, next_id, grants, cache, now, inflight>>

\* ------------------------------------------------- BulkPermissionManager
\* The two loops of assign_bulk_permissions / remove_bulk_permissions: the
\* rows are written first, then invalidate_cache runs for every user.
\* cache.delete_pattern is an extension of django-redis; the LocMemCache of
\* config/settings/local.py has no such method and the call raises
\* AttributeError.  has_delete_pattern says which backend the deployment
\* runs; `atomic` says whether the caller's transaction then undoes the rows.
\* assign_perm(perm, user, obj) stores the codename.
AssignBulkPermissions(perms, users, d, has_delete_pattern, atomic) ==
    LET added == {<<u, StripAppLabel(p), d>> : u \in users, p \in perms}
        raised == ~has_delete_pattern /\ users # {}
    IN /\ grants' = IF raised /\ atomic THEN grants ELSE grants \cup added
       /\ cache' = IF has_delete_pattern
                   THEN {e \in cache : \A u \in users : e \in InvalidateCache(cache, u, d)}
                   ELSE cache
       /\ UNCHANGED <<docs, shares, next_id, now, inflight>>

RemoveBulkPermissions(perms, users, d, has_delete_pattern, atomic) ==
    LET removed == {<<u, StripAppLabel(p), d>> : u \in users, p \in perms}
        raised == ~has_delete_pattern /\ users # {}
    IN /\ grants' = IF raised /\ atomic THEN grants ELSE grants \ removed
       /\ cache' = IF has_delete_pattern
                   THEN {e \in cache : \A u \in users : e \in InvalidateCache(cache, u, d)}
                   ELSE cache
       /\ UNCHANGED <<docs, shares, next_id, now, inflight>>

\* --------------------------------------------------- PermissionTemplates
OWNER_PERMISSIONS == {"view_doc", "edit_doc", "delete_doc", "download_doc", "share_doc"}
EDITOR_PERMISSIONS == {"view_doc", "edit_doc", "download_doc"}
VIEWER_PERMISSIONS == {"view_doc"}
REVIEWER_PERMISSIONS == {"view_doc", "download_doc"}

\* templates.get(template_name, [])
Templates(template_name) ==
    CASE template_name = "owner" -> OWNER_PERMISSIONS
      [] template_name = "editor" -> EDITOR_PERMISSIONS
      [] template_name = "viewer" -> VIEWER_PERMISSIONS
      [] template_name = "reviewer" -> REVIEWER_PERMISSIONS
      [] OTHER -> {}

TemplateNames == {"owner", "editor", "viewer", "reviewer", "none"}

\* PermissionTemplates.apply_template: the rows are written, then
\* invalidate_cache runs once for the user, also for an unknown template.
ApplyTemplate(template_name, u, d, has_delete_pattern, atomic) ==
    LET added == {<<u, StripAppLabel(p), d>> : p \in Templates(template_name)}
        raised == ~has_delete_pattern
    IN /\ grants' = IF raised /\ atomic THEN grants ELSE grants \cup added
       /\ cache' = IF has_delete_pattern THEN InvalidateCache(cache, u, d) ELSE cache
       /\ UNCHANGED <<docs, shares, next_id, now, inflight>>

\* CachedPermissionChecker(u).has_perm(perm, d), called by any code path.
CallHasPerm(u, perm, d) ==
    /\ cache' = HasPermCache(cache, grants, u, perm, d)
    /\ UNCHANGED <<docs, shares, next_id, grants, now, inflight>>

\* ---------------- has_perm and remove_bulk_permissions, call by call
\* CachedPermissionChecker.has_perm, lines 39-43: cache.get; on a hit the
\* call returns the cached verdict, on a miss it reads the store with
\* self.checker.has_perm and holds the result.
HasPermRead(r, u, perm, d) ==
    /\ inflight[r].pc = "idle"
    /\ inflight' = [inflight EXCEPT ![r] =
           [pc |-> IF CacheHit(cache, u, perm, d) THEN "has_perm_done" ELSE "has_perm_read",
            kind |-> "has_perm", user |-> u, perm |-> perm, document |-> d,
            result |-> HasPerm(cache, grants, u, perm, d)]]
    /\ UNCHANGED <<docs, shares, next_id, grants, cache, now>>

\* has_perm, lines 47-49: cache.set(cache_key, result, CACHE_TIMEOUT) with
\* the result read before, and the return.
HasPermSet(r) ==
    LET q == inflight[r]
    IN /\ q.pc = "has_perm_read"
       /\ cache' = CacheSet(cache, q.user, q.perm, q.document, q.result)
       /\ inflight' = [inflight EXCEPT ![r].pc = "has_perm_done"]
       /\ UNCHANGED <<docs, shares, next_id, grants, now>>

\* remove_bulk_permissions, lines 110-114: the remove_perm loop.
RemoveBulkRows(r, perms, users, d) ==
    /\ inflight[r].pc = "idle"
    /\ grants' = grants \ {<<u, StripAppLabel(p), d>> : u \in users, p \in perms}
    /\ inflight' = [inflight EXCEPT ![r] =
           [pc |-> "remove_rows_done", kind |-> "remove_bulk_permissions",
            users |-> users, perms |-> perms, document |-> d]]
    /\ UNCHANGED <<docs, shares, next_id, cache, now>>

\* remove_bulk_permissions, lines 116-121: the invalidate_cache loop and
\* the return.  Without cache.delete_pattern the first invalidate_cache
\* raises AttributeError and the call does not return.
RemoveBulkInvalidate(r, has_delete_pattern) ==
    LET q == inflight[r]
    IN /\ q.pc = "remove_rows_done"
       /\ IF has_delete_pattern
          THEN /\ cache' = {e \in cache :
                              \A u \in q.users : e \in InvalidateCache(cache, u, q.document)}
               /\ inflight' = [inflight EXCEPT ![r].pc = "remove_returned"]
          ELSE /\ cache' = cache
               /\ inflight' = [inflight EXCEPT ![r].pc = "remove_raised"]
       /\ UNCHANGED <<docs, shares, next_id, grants, now>>

\* The caller goes on; the worker takes the next call.
CallReturn(r) ==
    /\ inflight[r].pc \in {"has_perm_done", "remove_returned", "remove_raised"}
    /\ inflight' = [inflight EXCEPT ![r] = IdleRequest]
    /\ UNCHANGED <<docs, shares, next_id, grants, cache, now>>

\* The rows of `order[i..]` that copy_permissions inserts for target_doc
\* before Share.objects.create raises IntegrityError (or the loop ends).
RECURSIVE CopyLoop(_, _, _, _, _)
CopyLoop(S, id, tgt, order, i) ==
    IF i > Len(order) THEN S
    ELSE LET row == NewShare(id, tgt, order[i].shared_with, order[i].shared_by,
                             order[i].permission_level, order[i].expires_at)
         IN IF UniqueViolation(S, row) THEN S
            ELSE CopyLoop(S \cup {row}, id + 1, tgt, order, i + 1)

\* source_doc.shares.all() comes in no stated order.
Orders(T) == {o \in [1..Cardinality(T) -> T] : \A i, j \in DOMAIN o : o[i] = o[j] => i = j}

\* copy_permissions(source_doc, target_doc, include_shares).  It raises when
\* the target already holds a Share for a recipient; `atomic` says whether
\* the caller's transaction then undoes the rows written so far.
CopyPermissions(src, tgt, include_shares, atomic) ==
    LET copied == {<<g[1], g[2], tgt>> : g \in {h \in grants : h[3] = src}}
        sources == IF include_shares THEN SharesOf(shares, src) ELSE {}
    IN \E order \in Orders(sources) :
          LET after == CopyLoop(shares, next_id, tgt, order, 1)
              created == Cardinality(after) - Cardinality(shares)
              raised == created < Len(order)
          IN /\ IF raised /\ atomic
                THEN UNCHANGED <<grants, shares, next_id>>
                ELSE /\ grants' = grants \cup copied
                     /\ shares' = after
                     /\ next_id' = next_id + created
             /\ UNCHANGED <<docs, cache, now, inflight>>

\* ------------------------------------ requests whose Access INSERT fails
\* log_document_access is a bare Access.objects.create, without try/except:
\* an exception from the INSERT leaves the view.  audit_ok says whether the
\* Access table takes the rows of the request.
AuditRaises(rows, audit_ok) == rows # << >> /\ ~audit_ok

\* The response of a request whose handler answers `out` and writes `rows`:
\* rest_framework's exception handler does not know a database error, Django
\* answers 500.
AuditedOutcome(out, rows, audit_ok) ==
    IF AuditRaises(rows, audit_ok) THEN Response(500, "server_error") ELSE out

\* ATOMIC_REQUESTS wraps the view in transaction.atomic: the exception rolls
\* every row the request wrote back.  The permission cache is no part of
\* the transaction and keeps the verdicts the request stored; a primary key
\* the rolled-back INSERTs drew may or may not be handed out again (a
\* sequence is not transactional, a rowid is).
ShareAudited(u, d, w, audit_ok) ==
    IF AuditRaises(ShareAccess(docs, shares, grants, cache, now, u, d, w), audit_ok)
    THEN /\ cache' = CanShareDocumentCache(docs, shares, grants, cache, u, d)
         /\ next_id' \in {next_id, next_id + 1}
         /\ UNCHANGED <<docs, shares, grants, now, inflight>>
    ELSE Share(u, d, w)

BulkShareAudited(u, d, ids, audit_ok) ==
    IF AuditRaises(BulkShareAccess(docs, shares, grants, cache, now, u, d, ids), audit_ok)
    THEN LET after == BulkLoop(docs, shares, next_id, u, d, ids, 1, "view", Null)
             created == Cardinality(after) - Cardinality(shares)
         IN /\ cache' = CanShareDocumentCache(docs, shares, grants, cache, u, d)
            /\ next_id' \in next_id..(next_id + created)
            /\ UNCHANGED <<docs, shares, grants, now, inflight>>
    ELSE BulkShare(u, d, ids)

\* unshare and ShareViewSet.destroy write the row before they delete: the
\* delete is never reached.
UnshareAudited(u, d, share_id, audit_ok) ==
    IF AuditRaises(UnshareAccess(docs, shares, grants, cache, now, u, d, share_id), audit_ok)
    THEN /\ cache' = UnshareCache(docs, shares, grants, cache, now, u, d)
         /\ UNCHANGED <<docs, shares, next_id, grants, now, inflight>>
    ELSE Unshare(u, d, share_id)

\* The Access rows of PATCH /shares/<sh.id>/: perform_update writes one
\* "edit" row after serializer.save().
UpdateShareAccess(D, S, u, sh, patch) ==
    IF UpdateShareOutcome(D, S, u, sh, patch).code = 200
    THEN LogDocumentAccess(sh.document, u, "edit", TRUE)
    ELSE << >>

UpdateShareAudited(u, sh, patch, audit_ok) ==
    IF AuditRaises(UpdateShareAccess(docs, shares, u, sh, patch), audit_ok)
    THEN /\ sh \in shares
         /\ UNCHANGED vars
    ELSE UpdateShare(u, sh, patch)

DestroyAudited(u, d, audit_ok) ==
    IF AuditRaises(DestroyAccess(docs, shares, grants, cache, now, u, d), audit_ok)
    THEN /\ cache' = HasObjectPermissionCache(docs, grants, cache, u, "DELETE", d)
         /\ UNCHANGED <<docs, shares, next_id, grants, now, inflight>>
    ELSE Destroy(u, d)

\* download: the exception of the "download" row is caught by the
\* `except Exception` of views.py 197, whose own log_document_access call
\* raises in turn and leaves the view; the increment is rolled back.
DownloadAudited(u, d, in_storage, audit_ok) ==
    IF AuditRaises(DownloadAccess(docs, shares, grants, cache, now, u, d, in_storage),
                   audit_ok)
    THEN /\ cache' = HasObjectPermissionCache(docs, grants, cache, u, "GET", d)
         /\ UNCHANGED <<docs, shares, next_id, grants, now, inflight>>
    ELSE Download(u, d, in_storage)

\* retrieve writes no row of its own: the request differs in its response.
RetrieveAudited(u, d, audit_ok) == Retrieve(u, d)

\* ------------------------------------------------------- User.delete()
\* Django's deletion collector follows every foreign key to the user:
\* Document.owner and Share.shared_with are on_delete=CASCADE (models.py
\* 46-51, 154-159), Share.document cascades from the deleted documents
\* (models.py 149-153), Share.shared_by is SET_NULL (models.py 165-171).
DeleteUserDocs(D, u) == [d \in {x \in DOMAIN D : D[x].owner # u} |-> D[d]]

DeleteUserShares(D, S, u) ==
    {IF sh.shared_by = u THEN [sh EXCEPT !.shared_by = NoUser] ELSE sh :
        sh \in {o \in S : o.shared_with # u /\ D[o.document].owner # u}}

\* DocumentUserObjectPermission rows go with their user and with their
\* document (models.py 287-290).
DeleteUserGrants(D, G, u) == {g \in G : g[1] # u /\ D[g[3]].owner # u}

\* user.delete() of a user who owns documents.  The permission cache is
\* not touched.
DeleteUser(u) ==
    /\ \E d \in DOMAIN docs : docs[d].owner = u
    /\ docs' = DeleteUserDocs(docs, u)
    /\ shares' = DeleteUserShares(docs, shares, u)
    /\ grants' = DeleteUserGrants(docs, grants, u)
    /\ UNCHANGED <<next_id, cache, now, inflight>>

\* ------------------------------------------------------------ environment
\* timezone.now() advances.
Tick ==
    /\ now < MaxTime
    /\ now' = now + 1
    /\ UNCHANGED <<docs, shares, next_id, grants, cache, inflight>>

\* An entry of the permission cache reaches its CACHE_TIMEOUT.
CacheExpire ==
    /\ \E e \in cache : cache' = cache \ {e}
    /\ UNCHANGED <<docs, shares, next_id, grants, now, inflight>>

\* ------------------------------------------------------- inputs and Init
Recipients == {1, 2}
SharingRecipients == {1, 2, 3}
GrantUsers == {2}
BulkInputs == {<<2>>, <<3>>, <<2, 3>>, <<2, 2>>, <<1, 2>>}
PatchOf(field, w, level, exp) ==
    [field |-> field, shared_with_id |-> w, permission_level |-> level, expires_at |-> exp]
PatchInputs ==
    {PatchOf("shared_with_id", w, "view", Null) : w \in SharingRecipients}
    \cup {PatchOf("permission_level", 1, l, Null) : l \in PERMISSION_LEVEL}
    \cup {PatchOf("expires_at", 1, "view", e) : e \in ExpiryInputs}

\* Two uploaded documents of user 1: document 1 private, document 2 public.
Init ==
    /\ docs = [d \in Docs |-> NewDocument(1, d = 2, d)]
    /\ shares = {}
    /\ next_id = 1
    /\ grants = {}
    /\ cache = {}
    /\ now = 0
    /\ inflight = [r \in Requests |-> IdleRequest]

\* The resolver's world: single shares come and go, grants come and go,
\* time passes.
Next ==
    \/ \E u \in Users, d \in Docs, w \in Recipients :
          Share(u, d, w) /\ next_id' <= MaxShares + 1
    \/ \E u \in Users, d \in Docs, id \in 1..MaxShares : Unshare(u, d, id)
    \/ \E u \in Users, d \in Docs : Retrieve(u, d)
    \/ \E u \in Users, d \in Docs : Destroy(u, d)
    \/ \E p \in Perms, u \in GrantUsers, d \in Docs, b \in BOOLEAN, atomic \in BOOLEAN :
          AssignBulkPermissions({p}, {u}, d, b, atomic) /\ Cardinality(grants') <= MaxGrants
    \/ \E p \in Perms, u \in GrantUsers, d \in Docs, b \in BOOLEAN, atomic \in BOOLEAN :
          RemoveBulkPermissions({p}, {u}, d, b, atomic)
    \/ Tick
    \/ CacheExpire

Spec == Init /\ [][Next]_vars

\* The Sharing Manager's world: every operation that writes Share rows.
NextSharing ==
    \/ \E u \in Users, d \in Docs, w \in SharingRecipients :
          Share(u, d, w) /\ next_id' <= MaxSharingIds + 1
    \/ \E u \in Users, d \in Docs, ids \in BulkInputs :
          BulkShare(u, d, ids) /\ next_id' <= MaxSharingIds + 1
    \/ \E u \in Users, d \in Docs, id \in 1..MaxSharingIds : Unshare(u, d, id)
    \/ \E u \in Users, sh \in shares, patch \in PatchInputs : UpdateShare(u, sh, patch)
    \/ \E u \in Users, id \in 1..MaxSharingIds : DestroyShare(u, id)
    \/ \E src \in Docs, tgt \in Docs, inc \in BOOLEAN, atomic \in BOOLEAN :
          CopyPermissions(src, tgt, inc, atomic) /\ next_id' <= MaxSharingIds + 1
    \/ Tick
    \/ CacheExpire

SpecSharing == Init /\ [][NextSharing]_vars

\* Concurrent share requests: the steps of two requests interleave.
NextRace ==
    \/ \E r \in Requests, u \in Users, d \in Docs, w \in Recipients :
          ShareBegin(r, u, d, w)
    \/ \E r \in Requests : ShareCommit(r) /\ next_id' <= MaxRaceIds + 1
    \/ \E r \in Requests : ShareRespond(r)

SpecRace == Init /\ [][NextRace]_vars

\* A recipient's world: shares are created, changed and revoked while the
\* recipients read and download, which fills the permission cache.
NextAccess ==
    \/ \E u \in Users, d \in Docs, w \in Recipients :
          Share(u, d, w) /\ next_id' <= MaxSharingIds + 1
    \/ \E u \in Users, sh \in shares, patch \in PatchInputs : UpdateShare(u, sh, patch)
    \/ \E u \in Users, d \in Docs, id \in 1..MaxSharingIds : Unshare(u, d, id)
    \/ \E u \in Users, d \in Docs : Retrieve(u, d)
    \/ \E u \in Users, d \in Docs, in_storage \in BOOLEAN :
          Download(u, d, in_storage) /\ docs'[d].download_count <= MaxDownloads
    \/ Tick
    \/ CacheExpire

SpecAccess == Init /\ [][NextAccess]_vars

\* Revocation: shares made by the owner, by a superuser and by the holder
\* of a share_doc grant are revoked through both endpoints.
RevokeRecipients == {2, 4}

NextRevoke ==
    \/ \E u \in GrantUsers, d \in Docs, b \in BOOLEAN, atomic \in BOOLEAN :
          AssignBulkPermissions({"documents.share_doc"}, {u}, d, b, atomic)
    \/ \E u \in Users, d \in Docs, w \in RevokeRecipients :
          Share(u, d, w) /\ next_id' <= MaxSharingIds + 1
    \/ \E u \in Users, d \in Docs, id \in 1..MaxSharingIds : Unshare(u, d, id)
    \/ \E u \in Users, id \in 1..MaxSharingIds : DestroyShare(u, id)
    \/ Tick
    \/ CacheExpire

SpecRevoke == Init /\ [][NextRevoke]_vars

\* Requests of every kind by every user, most of them refused.
DeniedBulkInputs == {<<2>>, <<2, 4>>}

NextDenied ==
    \/ \E u \in Users, d \in Docs, w \in Recipients :
          Share(u, d, w) /\ next_id' <= MaxShares + 1
    \/ \E u \in Users, d \in Docs, ids \in DeniedBulkInputs :
          BulkShare(u, d, ids) /\ next_id' <= MaxShares + 1
    \/ \E u \in Users, d \in Docs, id \in 1..MaxShares : Unshare(u, d, id)
    \/ \E u \in Users, d \in Docs, in_storage \in BOOLEAN :
          Download(u, d, in_storage) /\ docs'[d].download_count <= MaxDownloads
    \/ \E u \in Users, d \in Docs : Retrieve(u, d)
    \/ \E u \in Users, d \in Docs : Listing(u, d)
    \/ \E u \in Users, d \in Docs : Destroy(u, d)
    \/ Tick

SpecDenied == Init /\ [][NextDenied]_vars

\* Requests that write an Access row, served while the Access table may
\* refuse the INSERT.
AuditPatchInputs ==
    {PatchOf("permission_level", 1, "edit", Null), PatchOf("expires_at", 1, "view", <<1>>)}

NextAudit ==
    \/ \E u \in Users, d \in Docs, w \in Recipients, audit_ok \in BOOLEAN :
          ShareAudited(u, d, w, audit_ok) /\ next_id' <= MaxShares + 1
    \/ \E u \in Users, d \in Docs, ids \in DeniedBulkInputs, audit_ok \in BOOLEAN :
          BulkShareAudited(u, d, ids, audit_ok) /\ next_id' <= MaxShares + 1
    \/ \E u \in Users, d \in Docs, id \in 1..MaxShares, audit_ok \in BOOLEAN :
          UnshareAudited(u, d, id, audit_ok)
    \/ \E u \in Users, sh \in shares, patch \in AuditPatchInputs, audit_ok \in BOOLEAN :
          UpdateShareAudited(u, sh, patch, audit_ok)
    \/ \E u \in Users, d \in Docs, audit_ok \in BOOLEAN : DestroyAudited(u, d, audit_ok)
    \/ \E u \in Users, d \in Docs, in_storage \in BOOLEAN, audit_ok \in BOOLEAN :
          DownloadAudited(u, d, in_storage, audit_ok)
             /\ docs'[d].download_count <= MaxDownloads
    \/ \E u \in Users, d \in Docs, audit_ok \in BOOLEAN : RetrieveAudited(u, d, audit_ok)
    \/ Tick

SpecAudit == Init /\ [][NextAudit]_vars

\* Accounts are closed while documents are shared: the owner of the two
\* documents can be deleted, the superuser and the recipients stay.
NextUsers ==
    \/ \E u \in Users : DeleteUser(u)
    \/ \E u \in {1, 3}, d \in DOMAIN docs, w \in RevokeRecipients :
          Share(u, d, w) /\ next_id' <= MaxSharingIds + 1
    \/ \E sh \in shares, patch \in AuditPatchInputs : UpdateShare(3, sh, patch)
    \/ \E id \in 1..MaxSharingIds : DestroyShare(3, id)
    \/ Tick

SpecUsers == Init /\ [][NextUsers]_vars

\* A bulk_share served by worker 1 next to share requests served by
\* worker 2.  The INSERT of a share request waits for an uncommitted row of
\* the same pair.
BulkRaceInputs == {<<2, 4>>, <<4, 2, 4>>, <<1, 2>>}

NextBulk ==
    \/ \E u \in {1, 2}, ids \in BulkRaceInputs, exp \in ExpiryInputs :
          BulkShareBegin(1, u, 1, ids, "view", exp)
    \/ BulkShareCheck(1)
    \/ BulkShareInsert(1) /\ next_id' <= MaxRaceIds + 1
    \/ BulkShareFinish(1)
    \/ BulkShareRespond(1)
    \/ \E u \in {1, 3}, w \in RevokeRecipients : ShareBegin(2, u, 1, w)
    \/ /\ ShareCommit(2)
       /\ next_id' <= MaxRaceIds + 1
       /\ ~InsertBlocked(2, inflight[2].document, inflight[2].shared_with_id)
    \/ ShareRespond(2)

SpecBulk == Init /\ [][NextBulk]_vars

\* Grants are given and taken away while has_perm calls are under way, in
\* a deployment whose cache backend has delete_pattern (with another
\* backend remove_bulk_permissions raises and never returns).
RemovalPerms == {"documents.view_doc", "documents.download_doc"}

NextRemoval ==
    \/ \E p \in RemovalPerms, u \in GrantUsers, d \in Docs, atomic \in BOOLEAN :
          AssignBulkPermissions({p}, {u}, d, TRUE, atomic)
    \/ \E r \in Requests, u \in GrantUsers, p \in RemovalPerms, d \in Docs :
          HasPermRead(r, u, p, d)
    \/ \E r \in Requests : HasPermSet(r)
    \/ \E r \in Requests, p \in RemovalPerms, u \in GrantUsers, d \in Docs :
          RemoveBulkRows(r, {p}, {u}, d)
    \/ \E r \in Requests : RemoveBulkInvalidate(r, TRUE)
    \/ \E r \in Requests : CallReturn(r)
    \/ CacheExpire

SpecRemoval == Init /\ [][NextRemoval]_vars

\* Concurrent downloads and deletes: each worker serves one request, the
\* steps of the two requests interleave.
NextCounter ==
    \/ \E r \in Requests, u \in Users, d \in Docs, in_storage \in BOOLEAN :
          DownloadBegin(r, u, d, in_storage)
    \/ \E r \in Requests : DownloadIncrement(r)
    \/ \E r \in Requests, u \in Users, d \in Docs : DestroyBegin(r, u, d)
    \/ \E r \in Requests : DestroySave(r)

SpecCounter == Init /\ [][NextCounter]_vars

\* Concurrent uploads: the steps of two requests interleave.
HashInputs == 1..MaxDocuments

NextUpload ==
    \/ \E r \in Requests, u \in Users, h \in HashInputs,
          is_public \in BOOLEAN, stored \in BOOLEAN :
          UploadBegin(r, u, h, is_public, stored)
    \/ \E r \in Requests : UploadCommit(r) /\ Len(docs') <= MaxDocuments
    \/ \E r \in Requests : UploadRespond(r)

SpecUpload == Init /\ [][NextUpload]_vars

\* The Grant store's world: every path that writes object-permission rows,
\* between calls of the cached checker.
CheckedPerms == {"documents.view_doc", "documents.delete_doc", "view_doc"}

NextGrants ==
    \/ \E u \in GrantUsers, p \in CheckedPerms, d \in Docs : CallHasPerm(u, p, d)
    \/ \E p \in Perms, u \in GrantUsers, d \in Docs, b \in BOOLEAN, atomic \in BOOLEAN :
          AssignBulkPermissions({p}, {u}, d, b, atomic)
             /\ Cardinality(grants') <= MaxGrantRows
    \/ \E p \in Perms, u \in GrantUsers, d \in Docs, b \in BOOLEAN, atomic \in BOOLEAN :
          RemoveBulkPermissions({p}, {u}, d, b, atomic)
    \/ \E name \in TemplateNames, u \in GrantUsers, d \in Docs,
          b \in BOOLEAN, atomic \in BOOLEAN :
          ApplyTemplate(name, u, d, b, atomic) /\ Cardinality(grants') <= MaxGrantRows
    \/ \E src \in Docs, tgt \in Docs, inc \in BOOLEAN, atomic \in BOOLEAN :
          CopyPermissions(src, tgt, inc, atomic)
             /\ Cardinality(grants') <= MaxGrantRows
    \/ CacheExpire

SpecGrants == Init /\ [][NextGrants]_vars

\* ================================================================ claims
\* C1: the owner of a document passes every access check in every
\* reachable state: has_object_permission for every HTTP method, the
\* download check of DocumentViewSet.download and CanShareDocument,
\* whatever shares, grants, cached verdicts, is_public flag and status the
\* document has.
C1_OwnerAllowed ==
    \A d \in Docs, u \in Users :
        docs[d].owner = u =>
            /\ \A m \in Methods :
                  HasObjectPermission(docs, shares, grants, cache, now, u, m, d)
            /\ DownloadCheck(docs, shares, grants, now, u, d)
            /\ CanShareDocument(docs, shares, grants, cache, u, d)

\* A private document of user 1, soft-deleted, shared with someone else by
\* an expired share, with a grant and a cached verdict of another user.
C1_Witness ==
    /\ docs[1].owner = 1 /\ ~docs[1].is_public /\ docs[1].status = "deleted"
    /\ \E sh \in SharesOf(shares, 1) : ~NotExpiredAt(sh, now)
    /\ \E g \in grants : g[3] = 1
    /\ cache # {}

\* C2: DELETE is allowed only to the owner, a superuser or a member of
\* document_admins: for every other subject has_object_permission with
\* method DELETE is false, whatever shares and grants the subject holds.
C2_DeleteOnlyOwnerOrAdmin ==
    \A d \in Docs, u \in Users :
        ( /\ docs[d].owner # u
          /\ u \notin Superusers
          /\ u \notin DocumentAdmins )
        => ~HasObjectPermission(docs, shares, grants, cache, now, u, "DELETE", d)

\* C3: CanShareDocument is true exactly for a superuser or the owner of
\* the document; it is false for the holder of a share_doc grant and for
\* the recipient of an active edit-level share.
C3_ShareOnlyOwnerOrSuperuser ==
    \A d \in Docs, u \in Users :
        CanShareDocument(docs, shares, grants, cache, u, d)
            <=> (u \in Superusers \/ docs[d].owner = u)

\* C4: the recipient of a share whose expires_at is in the past is denied
\* every safe method on the share's document, whatever the share's level,
\* when the recipient has no standing, the document is private and the
\* recipient holds no view_doc grant; the expired row is still stored.
C4_ExpiredShareDenied ==
    \A sh \in shares :
        ( /\ ~IsNull(sh.expires_at)
          /\ sh.expires_at[1] < now
          /\ docs[sh.document].owner # sh.shared_with
          /\ sh.shared_with \notin Superusers
          /\ sh.shared_with \notin DocumentAdmins
          /\ ~docs[sh.document].is_public
          /\ <<sh.shared_with, "view_doc", sh.document>> \notin grants )
        => \A m \in SAFE_METHODS :
              ~HasObjectPermission(docs, shares, grants, cache, now,
                                   sh.shared_with, m, sh.document)

\* C5: for an active view-level share on a private document whose
\* recipient has no grants and no standing, the recipient's safe methods
\* are allowed, the download is refused and POST, PUT, PATCH and DELETE are
\* denied; with an active share the download is allowed only at level
\* download or edit.
C5_ViewShareViewOnly ==
    \A sh \in shares :
        ( /\ NotExpiredAt(sh, now)
          /\ docs[sh.document].owner # sh.shared_with
          /\ sh.shared_with \notin Superusers
          /\ sh.shared_with \notin DocumentAdmins
          /\ ~docs[sh.document].is_public
          /\ \A p \in Perms : <<sh.shared_with, p, sh.document>> \notin grants )
        => /\ sh.permission_level = "view" =>
                /\ \A m \in SAFE_METHODS :
                      HasObjectPermission(docs, shares, grants, cache, now,
                                          sh.shared_with, m, sh.document)
                /\ DownloadOutcome(docs, shares, grants, cache, now,
                                   sh.shared_with, sh.document, TRUE).code = 403
                /\ \A m \in Methods \ SAFE_METHODS :
                      ~HasObjectPermission(docs, shares, grants, cache, now,
                                           sh.shared_with, m, sh.document)
           /\ DownloadCheck(docs, shares, grants, now, sh.shared_with, sh.document)
                <=> sh.permission_level \in {"download", "edit"}

\* C6: on a public document a subject with no standing, no grant and no
\* share is allowed GET, HEAD and OPTIONS and denied POST, PUT, PATCH and
\* DELETE.
C6_PublicReadOnly ==
    \A d \in Docs, u \in Users :
        ( /\ docs[d].is_public
          /\ docs[d].owner # u
          /\ u \notin Superusers
          /\ u \notin DocumentAdmins
          /\ \A p \in Perms : <<u, p, d>> \notin grants
          /\ ~ShareExists(shares, d, u) )
        => /\ \A m \in SAFE_METHODS :
                 HasObjectPermission(docs, shares, grants, cache, now, u, m, d)
           /\ \A m \in Methods \ SAFE_METHODS :
                 ~HasObjectPermission(docs, shares, grants, cache, now, u, m, d)

\* C7: a subject with a download_doc grant on a private document, no share
\* on it and not its owner downloads it successfully and is denied the
\* share action.
C7_GrantDownloads ==
    \A d \in Docs, u \in Users :
        ( /\ <<u, "download_doc", d>> \in grants
          /\ ~ShareExists(shares, d, u)
          /\ docs[d].owner # u
          /\ ~docs[d].is_public )
        => /\ DownloadOutcome(docs, shares, grants, cache, now, u, d, TRUE).code = 200
           /\ ~CanShareDocument(docs, shares, grants, cache, u, d)

\* C8: there is at most one Share row per (document, recipient) after any
\* sequence of share, bulk_share, update_share, unshare and
\* copy_permissions; a share request by the owner or a superuser for a pair
\* that has a row, expired or not, is answered with the "already shared"
\* conflict, which writes nothing, and a bulk_share for the pair skips it
\* and leaves every row as it was.
C8_OneSharePerPair ==
    /\ \A a, b \in shares :
          (a.document = b.document /\ a.shared_with = b.shared_with) => a = b
    /\ \A d \in Docs, u \in Users, w \in Users :
          ( /\ ShareExists(shares, d, w)
            /\ (docs[d].owner = u \/ u \in Superusers) )
          => /\ ShareOutcome(docs, shares, grants, cache, now, u, d, w)
                   = Response(400, "already_shared")
             /\ BulkLoop(docs, shares, next_id, u, d, <<w>>, 1, "edit", Null) = shares

\* Two rows are stored, one of them expired, and the owner's request to
\* share with the expired row's recipient again is refused.
C8_Witness ==
    /\ Cardinality(shares) = 2
    /\ \E sh \in shares :
          /\ ~NotExpiredAt(sh, now)
          /\ ShareOutcome(docs, shares, grants, cache, now,
                          docs[sh.document].owner, sh.document, sh.shared_with)
                = Response(400, "already_shared")

\* C9: when two share requests for the same pair both pass the existence
\* check before either commits, one row is stored and the request that
\* loses is answered with the "already shared" conflict of a sequential
\* duplicate: a request that passed the check ends with 201 or with that
\* conflict, never with another response.
C9_RaceLoserAlreadyShared ==
    /\ \A a, b \in shares :
          (a.document = b.document /\ a.shared_with = b.shared_with) => a = b
    /\ \A r \in Requests :
          ( /\ inflight[r].pc = "done"
            /\ inflight[r].validated
            /\ inflight[r].response.code # 201 )
          => inflight[r].response = Response(400, "already_shared")

\* C10: no Share row has its document's owner or its own shared_by as
\* recipient, after any sequence of share, bulk_share, update_share and
\* copy_permissions.
C10_NoOwnerOrSelfShare ==
    \A sh \in shares :
        /\ sh.shared_with # docs[sh.document].owner
        /\ sh.shared_with # sh.shared_by

\* C11: share expiry is time-based.  For a share with an expires_at, on a
\* private document, whose recipient has no standing and holds no view_doc
\* grant, the recipient's view check (has_object_permission for the safe
\* methods) is allowed at every time before expires_at and denied at every
\* time after it, whatever verdicts the permission cache holds.
C11_ShareExpiryTimeBased ==
    \A sh \in shares :
        ( /\ ~IsNull(sh.expires_at)
          /\ docs[sh.document].owner # sh.shared_with
          /\ sh.shared_with \notin Superusers
          /\ sh.shared_with \notin DocumentAdmins
          /\ ~docs[sh.document].is_public
          /\ <<sh.shared_with, "view_doc", sh.document>> \notin grants )
        => \A m \in SAFE_METHODS :
              /\ now < sh.expires_at[1] =>
                    HasObjectPermission(docs, shares, grants, cache, now,
                                        sh.shared_with, m, sh.document)
              /\ now > sh.expires_at[1] =>
                    ~HasObjectPermission(docs, shares, grants, cache, now,
                                         sh.shared_with, m, sh.document)

\* C12: a share mutation is visible to the very next access check, also
\* when a negative verdict for the recipient sits in the permission cache:
\* in every state reached by share, update_share, unshare, retrieve and
\* download, the recipient of a share that has not expired is allowed the
\* view check on the share's document, and with level download (set at
\* creation or by an update from view) the recipient's download succeeds.
C12_ShareMutationsVisible ==
    \A sh \in shares :
        NotExpiredAt(sh, now) =>
            /\ HasObjectPermission(docs, shares, grants, cache, now,
                                   sh.shared_with, "GET", sh.document)
            /\ sh.permission_level = "download" =>
                  DownloadOutcome(docs, shares, grants, cache, now,
                                  sh.shared_with, sh.document, TRUE)
                     = Response(200, "file")

\* A download-level share on the private document whose recipient has a
\* negative view_doc verdict in the cache and has downloaded the document.
C12_Witness ==
    \E sh \in shares :
        /\ NotExpiredAt(sh, now)
        /\ sh.permission_level = "download"
        /\ ~docs[sh.document].is_public
        /\ sh.shared_with \notin Superusers \cup DocumentAdmins
        /\ sh.shared_with # docs[sh.document].owner
        /\ [user |-> sh.shared_with, perm |-> "documents.view_doc",
            doc |-> sh.document, value |-> FALSE] \in cache
        /\ docs[sh.document].download_count > 0

\* C13: every path that writes Grant rows (assign_bulk_permissions,
\* remove_bulk_permissions, apply_template, copy_permissions) leaves no
\* stale verdict behind: in every state the cached checker's has_perm
\* returns the store's current value for every user, permission and
\* document, whatever verdict was cached before the mutation.
C13_MutationsInvalidate ==
    \A u \in Users, d \in Docs, p \in CheckedPerms :
        HasPerm(cache, grants, u, p, d) = CheckerHasPerm(grants, u, p, d)

\* C14: revoking a share is idempotent.  For a share id that was handed
\* out and whose row is gone, a further revoke by the document's owner is
\* answered 404 "share not found", deletes no row, appends no Access row
\* and leaves the permission cache as it is, so every later access decision
\* is the one made after the first revoke; DELETE /shares/<id>/ by anyone
\* is answered 404 too, with no row deleted and no Access row.
C14_RevokeIdempotent ==
    \A id \in 1..MaxSharingIds :
        (id < next_id /\ ~\E sh \in shares : sh.id = id) =>
            /\ \A d \in Docs :
                  LET o == docs[d].owner
                  IN /\ UnshareOutcome(docs, shares, grants, cache, now, o, d, id)
                           = Response(404, "share_not_found")
                     /\ UnshareRows(docs, shares, grants, cache, now, o, d, id) = shares
                     /\ UnshareAccess(docs, shares, grants, cache, now, o, d, id) = << >>
                     /\ UnshareCache(docs, shares, grants, cache, now, o, d) = cache
            /\ \A u \in Users :
                  /\ DestroyShareOutcome(docs, shares, u, id) = Response(404, "not_found")
                  /\ DestroyShareRows(docs, shares, u, id) = shares
                  /\ DestroyShareAccess(docs, shares, u, id) = << >>

\* Share 1 was revoked and share 2 is still stored on the private document.
C14_Witness ==
    /\ next_id = 3
    /\ ~\E sh \in shares : sh.id = 1
    /\ \E sh \in shares : sh.id = 2 /\ sh.document = 1

C16_SharePermissionTable ==
    /\ ~SharePermissionHasPermission(AnonymousUser)
    /\ \A u \in Users : SharePermissionHasPermission(u)
    /\ \A sh \in shares, m \in Methods :
          LET o == docs[sh.document].owner
              full == Superusers \cup {o, sh.shared_by}
          IN /\ \A u \in full : SharePermission(docs, u, m, sh)
             /\ SharePermission(docs, o, m, [sh EXCEPT !.shared_by = NoUser])
             /\ sh.shared_with \notin full =>
                   (SharePermission(docs, sh.shared_with, m, sh) <=> m \in SAFE_METHODS)
             /\ \A u \in Users \ (full \cup {sh.shared_with}) :
                   ~SharePermission(docs, u, m, sh)

\* A share whose grantor is an ordinary user other than the document's
\* owner, next to a share that leaves a non-superuser unrelated to it.
C16_Witness ==
    /\ \E sh \in shares :
          /\ sh.shared_by \notin Superusers \cup {docs[sh.document].owner}
          /\ sh.shared_with \notin Superusers \cup {docs[sh.document].owner, sh.shared_by}
    /\ \E sh \in shares :
          /\ sh.shared_with \notin Superusers \cup {docs[sh.document].owner, sh.shared_by}
          /\ \E u \in Users \ Superusers :
                u \notin {docs[sh.document].owner, sh.shared_by, sh.shared_with}

\* C17: no two Document rows share a file_hash, and an upload of content
\* whose hash a stored document has is rejected as duplicate content
\* without a new row: by the duplicate check when the row is there at the
\* check, and also when the upload passed the check and another upload of
\* the same bytes was committed before its own INSERT.
C17_UniqueFileHash ==
    /\ \A a, b \in DOMAIN docs : docs[a].file_hash = docs[b].file_hash => a = b
    /\ \A u \in Users, h \in HashInputs :
          (CanCreateDocument(u) /\ HashExists(docs, h)) =>
              UploadOutcome(docs, u, h, TRUE) = Response(400, "duplicate_content")
    /\ \A r \in Requests :
          ( /\ inflight[r].pc = "upload_done"
            /\ inflight[r].validated
            /\ inflight[r].response.code # 201 )
          => inflight[r].response = Response(400, "duplicate_content")

\* C18: download_count loses no update and changes on the download path
\* only.  With every request served once, the download_count of each
\* document equals the number of its downloads answered 200, in every
\* interleaving of the requests' steps: a denied download and one whose file
\* is missing add nothing, and a delete request leaves the counter alone.
C18_DownloadCountExact ==
    \A d \in Docs :
        docs[d].download_count =
            Cardinality({r \in Requests :
                            /\ inflight[r].pc = "count_done"
                            /\ inflight[r].kind = "download"
                            /\ inflight[r].document = d
                            /\ inflight[r].response.code = 200})

\* A response that refuses the request for lack of permission, or because
\* the document is outside the caller's queryset.
Denied(out) == out.code = 403 \/ out = Response(404, "not_found")

\* No denied request appends an Access row.
C19_NoAuditOnDenial ==
    \A u \in Users, d \in Docs :
        /\ \A s \in BOOLEAN :
              Denied(DownloadOutcome(docs, shares, grants, cache, now, u, d, s))
                 => DownloadAccess(docs, shares, grants, cache, now, u, d, s) = << >>
        /\ \A id \in 1..MaxShares :
              Denied(UnshareOutcome(docs, shares, grants, cache, now, u, d, id))
                 => UnshareAccess(docs, shares, grants, cache, now, u, d, id) = << >>
        /\ \A w \in Users :
              Denied(ShareOutcome(docs, shares, grants, cache, now, u, d, w))
                 => ShareAccess(docs, shares, grants, cache, now, u, d, w) = << >>
        /\ \A ids \in DeniedBulkInputs :
              Denied(BulkShareOutcome(docs, shares, grants, cache, now, u, d))
                 => BulkShareAccess(docs, shares, grants, cache, now, u, d, ids) = << >>
        /\ Denied(RetrieveOutcome(docs, shares, grants, cache, now, u, d))
              => RetrieveAccess(docs, shares, grants, cache, now, u, d) = << >>
        /\ Denied(DestroyOutcome(docs, shares, grants, cache, now, u, d))
              => DestroyAccess(docs, shares, grants, cache, now, u, d) = << >>
        /\ ( \/ Denied(ListSharesOutcome(docs, shares, grants, cache, now, u, d))
             \/ Denied(AccessLogsOutcome(docs, shares, grants, cache, now, u, d)) )
              => ListingAccess(docs, shares, grants, cache, now, u, d) = << >>

\* A step that is a denied request leaves the Document, Share and Grant
\* rows as they are.
C19_NoWriteOnDenial ==
    \/ UNCHANGED <<docs, shares, next_id, grants>>
    \/ \A u \in Users, d \in Docs :
          /\ \A s \in BOOLEAN :
                ~( /\ Denied(DownloadOutcome(docs, shares, grants, cache, now, u, d, s))
                   /\ Download(u, d, s) )
          /\ \A id \in 1..MaxShares :
                ~( /\ Denied(UnshareOutcome(docs, shares, grants, cache, now, u, d, id))
                   /\ Unshare(u, d, id) )
          /\ \A w \in Users :
                ~( /\ Denied(ShareOutcome(docs, shares, grants, cache, now, u, d, w))
                   /\ Share(u, d, w) )
          /\ \A ids \in DeniedBulkInputs :
                ~( /\ Denied(BulkShareOutcome(docs, shares, grants, cache, now, u, d))
                   /\ BulkShare(u, d, ids) )
          /\ ~( /\ Denied(RetrieveOutcome(docs, shares, grants, cache, now, u, d))
                /\ Retrieve(u, d) )
          /\ ~( /\ Denied(DestroyOutcome(docs, shares, grants, cache, now, u, d))
                /\ Destroy(u, d) )
          /\ ~( /\ \/ Denied(ListSharesOutcome(docs, shares, grants, cache, now, u, d))
                   \/ Denied(AccessLogsOutcome(docs, shares, grants, cache, now, u, d))
                /\ Listing(u, d) )

\* C19: a denied operation has no side effect on the stores.  When
\* download, unshare, share, bulk_share, retrieve, destroy, shares or
\* access_logs is answered 403, or 404 because the document is outside the
\* caller's queryset, the request appends no Access row and its step leaves
\* the Document rows (status, download_count), the Share rows and the Grant
\* rows unchanged.
C19_DeniedNoSideEffect ==
    []C19_NoAuditOnDenial /\ [][C19_NoWriteOnDenial]_vars

\* A view-level share on the private document whose recipient is refused
\* the download and has been refused an unshare (the verdict of that
\* request is in the cache), after a download was counted.
C19_Witness ==
    \E sh \in shares :
        /\ sh.permission_level = "view"
        /\ ~docs[sh.document].is_public
        /\ DownloadOutcome(docs, shares, grants, cache, now,
                           sh.shared_with, sh.document, TRUE)
              = Response(403, "no_download")
        /\ [user |-> sh.shared_with, perm |-> "documents.delete_doc",
            doc |-> sh.document, value |-> FALSE] \in cache
        /\ docs[sh.document].download_count > 0

\* C20: a failed audit write does not fail or roll back the primary
\* operation: when the Access INSERT of a successful retrieve, download,
\* destroy, share, bulk_share, unshare or update_share fails, the request
\* still has its primary effect (share created, updated or deleted, status
\* set to deleted, download_count incremented) and still answers as the
\* request with a working Access table does.
C20_AuditFailureHarmless ==
    [][/\ \A u \in Users, d \in Docs, w \in Recipients :
            LET out == ShareOutcome(docs, shares, grants, cache, now, u, d, w)
                rows == ShareAccess(docs, shares, grants, cache, now, u, d, w)
            IN (rows # << >> /\ ShareAudited(u, d, w, FALSE))
                  => (Share(u, d, w) /\ AuditedOutcome(out, rows, FALSE) = out)
       /\ \A u \in Users, d \in Docs, ids \in DeniedBulkInputs :
            LET out == BulkShareOutcome(docs, shares, grants, cache, now, u, d)
                rows == BulkShareAccess(docs, shares, grants, cache, now, u, d, ids)
            IN (rows # << >> /\ BulkShareAudited(u, d, ids, FALSE))
                  => (BulkShare(u, d, ids) /\ AuditedOutcome(out, rows, FALSE) = out)
       /\ \A u \in Users, d \in Docs, id \in 1..MaxShares :
            LET out == UnshareOutcome(docs, shares, grants, cache, now, u, d, id)
                rows == UnshareAccess(docs, shares, grants, cache, now, u, d, id)
            IN (rows # << >> /\ UnshareAudited(u, d, id, FALSE))
                  => (Unshare(u, d, id) /\ AuditedOutcome(out, rows, FALSE) = out)
       /\ \A u \in Users, sh \in shares, patch \in AuditPatchInputs :
            LET out == UpdateShareOutcome(docs, shares, u, sh, patch)
                rows == UpdateShareAccess(docs, shares, u, sh, patch)
            IN (rows # << >> /\ UpdateShareAudited(u, sh, patch, FALSE))
                  => (UpdateShare(u, sh, patch) /\ AuditedOutcome(out, rows, FALSE) = out)
       /\ \A u \in Users, d \in Docs :
            LET out == DestroyOutcome(docs, shares, grants, cache, now, u, d)
                rows == DestroyAccess(docs, shares, grants, cache, now, u, d)
            IN (rows # << >> /\ DestroyAudited(u, d, FALSE))
                  => (Destroy(u, d) /\ AuditedOutcome(out, rows, FALSE) = out)
       /\ \A u \in Users, d \in Docs :
            LET out == DownloadOutcome(docs, shares, grants, cache, now, u, d, TRUE)
                rows == DownloadAccess(docs, shares, grants, cache, now, u, d, TRUE)
            IN (out.code = 200 /\ DownloadAudited(u, d, TRUE, FALSE))
                  => (Download(u, d, TRUE) /\ AuditedOutcome(out, rows, FALSE) = out)
       /\ \A u \in Users, d \in Docs :
            LET out == RetrieveOutcome(docs, shares, grants, cache, now, u, d)
                rows == RetrieveAccess(docs, shares, grants, cache, now, u, d)
            IN (rows # << >> /\ RetrieveAudited(u, d, FALSE))
                  => (Retrieve(u, d) /\ AuditedOutcome(out, rows, FALSE) = out)
      ]_vars

\* C21: every existing Document has one owner, and deleting a user never
\* removes documents: when a user who owns documents is deleted, each of
\* those Document rows persists, its owner reference set to null.
C21_DocumentsSurviveOwner ==
    [][\A u \in Users :
          (\E d \in DOMAIN docs : docs[d].owner = u) /\ DeleteUser(u)
             => \A d \in DOMAIN docs :
                   /\ d \in DOMAIN docs'
                   /\ docs'[d].owner = IF docs[d].owner = u THEN NoUser
                                       ELSE docs[d].owner]_vars

\* C22: bulk_share is a best-effort batch: once the request has run, every
\* recipient of the list other than the owner has exactly one Share on the
\* document (those that had one are skipped, one is created for each other
\* distinct recipient), the rows the request created are stored even when
\* the INSERT for another recipient failed, and the returned count is the
\* number of rows of the request that are stored.
C22_BulkShareBestEffort ==
    \A r \in Requests :
       LET q == inflight[r]
       IN (q.pc = "bulk_done" /\ q.response.code \notin {403, 404})
          => /\ \A i \in 1..Len(q.user_ids) :
                   q.user_ids[i] # docs[q.document].owner
                      => Cardinality({sh \in SharesOf(shares, q.document) :
                                         sh.shared_with = q.user_ids[i]}) = 1
             /\ q.inserted \subseteq shares
             /\ q.response.code = 201 => q.created_count = Cardinality(q.inserted)

\* C23: copy_permissions(source, target, include_shares) onto a target
\* without shares puts every direct grant of the source on the target and,
\* when include_shares is true, creates a Share for exactly the recipients
\* of the source's active shares (expired shares are not copied), all of
\* them stamped with the one acting party as shared_by; with include_shares
\* false it creates no Share; the grants and shares of the source stay as
\* they are.
C23_CopyActiveSharesOnly ==
    [][\A src \in Docs, tgt \in Docs, inc \in BOOLEAN, atomic \in BOOLEAN :
          (src # tgt /\ SharesOf(shares, tgt) = {} /\ CopyPermissions(src, tgt, inc, atomic))
          => /\ SharesOf(shares', src) = SharesOf(shares, src)
             /\ {g \in grants' : g[3] = src} = {g \in grants : g[3] = src}
             /\ \A g \in grants : g[3] = src => <<g[1], g[2], tgt>> \in grants'
             /\ ~inc => shares' = shares
             /\ inc => \A w \in Users :
                          ShareExists(shares', tgt, w)
                             <=> \E sh \in SharesOf(shares, src) :
                                    sh.shared_with = w /\ NotExpiredAt(sh, now)
             /\ \A a, b \in SharesOf(shares', tgt) : a.shared_by = b.shared_by]_vars

\* C24: the "active share" predicate is the same wherever it is evaluated:
\* for every Share and every time, Share.is_active, the share filters, the
\* shared-with-me ids of the document filter and of the my-documents view
\* and, for an ordinary recipient of a private document, the read check of
\* the object permission, the list scope, the download check and
\* check_document_access for view_doc all agree with
\* "expires_at is null or expires_at > now".
C24_ActiveShareConsistent ==
    \A sh \in shares :
       LET u == sh.shared_with
           d == sh.document
           active == IsNull(sh.expires_at) \/ sh.expires_at[1] > now
       IN /\ IsActive(sh, now) = active
          /\ FilterActive(sh, now) = active
          /\ FilterExpired(sh, now) = ~active
          /\ (d \in SharedIds(shares, now, u)) = active
          /\ ( /\ u \notin Superusers \cup DocumentAdmins
               /\ u # docs[d].owner
               /\ ~docs[d].is_public
               /\ grants = {} )
             => /\ CheckReadPermission(docs, shares, grants, cache, now, u, d) = active
                /\ InQueryset(docs, shares, now, u, d) = active
                /\ sh.permission_level \in {"download", "edit"}
                      => DownloadCheck(docs, shares, grants, now, u, d) = active
                /\ CheckDocumentAccess(docs, shares, grants, cache, u, d, "view_doc") = active

\* C25: a non-superuser who is not the owner of a document, has no active
\* share on it and for whom it is not public gets NotFound (404) on
\* retrieve, download, delete and access_logs of it, the response to a
\* document id without a row: the responses do not tell whether the
\* document exists.
MissingId == Cardinality(Docs) + 1

C25_NoExistenceLeak ==
    \A u \in Users \ Superusers, d \in Docs :
       ( /\ docs[d].owner # u
         /\ ~docs[d].is_public
         /\ ~\E sh \in SharesOf(shares, d) :
               sh.shared_with = u /\ (IsNull(sh.expires_at) \/ sh.expires_at[1] > now) )
       => LET missing == GetObjectOr404(docs, MissingId, Response(200, "document"))
          IN /\ missing.code = 404
             /\ GetObjectOr404(docs, d,
                   RetrieveOutcome(docs, shares, grants, cache, now, u, d)) = missing
             /\ \A in_storage \in BOOLEAN :
                   GetObjectOr404(docs, d,
                      DownloadOutcome(docs, shares, grants, cache, now, u, d, in_storage))
                   = missing
             /\ GetObjectOr404(docs, d,
                   DestroyOutcome(docs, shares, grants, cache, now, u, d)) = missing
             /\ GetObjectOr404(docs, d,
                   AccessLogsOutcome(docs, shares, grants, cache, now, u, d)) = missing

\* An ordinary user holds an expired share and a grant on a private
\* document, and the retrieve is answered 404.
C25_Witness ==
    \E u \in Users \ (Superusers \cup DocumentAdmins), d \in Docs :
       /\ docs[d].owner # u
       /\ ~docs[d].is_public
       /\ \E sh \in SharesOf(shares, d) : sh.shared_with = u /\ ~NotExpiredAt(sh, now)
       /\ RetrieveOutcome(docs, shares, grants, cache, now, u, d).code = 404

\* C26: the document list scope agrees with the resolver's view decision:
\* for every authenticated user and every document, the document is in
\* DocumentViewSet.get_queryset for the user if and only if
\* DocumentPermission.has_object_permission allows the user a GET on it.
C26_ListScopeIsViewDecision ==
    \A u \in Users, d \in Docs :
       InQueryset(docs, shares, now, u, d)
          <=> HasObjectPermission(docs, shares, grants, cache, now, u, "GET", d)

GrantAbsent(G, u, perm, d) == <<u, StripAppLabel(perm), d>> \notin G

CachedTrue(c, u, perm, d) == CacheHit(c, u, perm, d) /\ CacheValue(c, u, perm, d)

C28_GroupAdminAllowed ==
    \A u \in DocumentAdmins, d \in Docs :
       /\ \A method \in {"GET", "DELETE"} :
             HasObjectPermission(docs, shares, grants, cache, now, u, method, d)
       /\ InQueryset(docs, shares, now, u, d)
       /\ DownloadCheck(docs, shares, grants, now, u, d)
       /\ RetrieveOutcome(docs, shares, grants, cache, now, u, d).code = 200
       /\ DownloadOutcome(docs, shares, grants, cache, now, u, d, TRUE).code = 200
       /\ DestroyOutcome(docs, shares, grants, cache, now, u, d).code = 204

\* C29: update_share (PATCH on a share) changes only the share's
\* permission_level and/or expires_at: its document, its recipient
\* (shared_with) and its grantor (shared_by) are unchanged and no other
\* Share row is changed.
C29_UpdateShareFrame ==
    [][\A u \in Users, sh \in shares, patch \in PatchInputs :
          ( /\ UpdateShareOutcome(docs, shares, u, sh, patch).code = 200
            /\ UpdateShare(u, sh, patch) )
          => \E new \in shares' :
                /\ new.id = sh.id
                /\ new.document = sh.document
                /\ new.shared_with = sh.shared_with
                /\ new.shared_by = sh.shared_by
                /\ shares' \ {new} = shares \ {sh}]_vars

\* C30: soft delete ends access for non-owners: while a document's status
\* is "deleted", no share recipient and no user relying on is_public gets
\* it from retrieve, download or the list, and no new share is created
\* on it.
C30_SoftDeleteEndsAccess ==
    \A d \in Docs :
       docs[d].status = "deleted"
       => /\ \A u \in Users \ ({docs[d].owner} \cup Superusers \cup DocumentAdmins) :
                /\ ~InQueryset(docs, shares, now, u, d)
                /\ RetrieveOutcome(docs, shares, grants, cache, now, u, d).code # 200
                /\ DownloadOutcome(docs, shares, grants, cache, now, u, d, TRUE).code # 200
          /\ \A u \in Users, w \in Recipients :
                ShareOutcome(docs, shares, grants, cache, now, u, d, w).code # 201
====
